---- MODULE Spec2Model ----
(***************************************************************************)
(* Command-dispatch core of the C2 server (src/c2-server.py): the          *)
(* CommandStore with its two views of every command (per-client queue and  *)
(* id-indexed ledger) and the HTTP handlers that call it.                  *)
(*                                                                         *)
(* Python lists hold references: client_commands[client_id] is a list of   *)
(* references to the cmd_obj dicts, and get_pending_commands returns a     *)
(* list of references to those same dicts.  The dicts therefore live in a  *)
(* heap (a sequence; a reference is an index into it).  command_details    *)
(* holds a second, independent dict per command.  The "timestamp" field of *)
(* both dicts is written once at creation and read by no code; it is left  *)
(* out of the records.                                                     *)
(***************************************************************************)
EXTENDS Integers, Sequences, FiniteSets, TLC

\* ---------------------------------------------------------------- bounds
MaxCmds == 2            \* number of uuid4() draws (commands issued) in a run

\* ---------------------------------------------------------------- inputs
Agents == {"a1", "a2"}          \* client identifiers
NoClient == ""                  \* a missing / empty client_id (falsy)
Texts == {"whoami", "ls"}       \* command texts
NoText == ""                    \* a missing / empty command (falsy)
Results == {"r1", "r2"}         \* result payloads (opaque to the store)
None == "None"                  \* Python None
CmdIds == 1 .. MaxCmds          \* the values uuid4() can return in a run
NoCmd == 0                      \* a missing / empty cmd_id (falsy)

VARIABLES
    command_store,   \* the CommandStore object and the cmd_obj dicts it references
    uuids,           \* how many uuid4() values have been drawn
    request,         \* the request being answered (last handler call)
    response,        \* the response of that handler
    handed,          \* history: for each cmd id, the client ids whose polls returned it
    before,          \* history: the ledger record of request.cmd_id when the request arrived
    threads,         \* SpecPar: the store call each parallel thread is executing
    issued,          \* history: what each issue was given and the id it returned, in order
    tester,          \* SpecWait: the operator's C2Tester (src/c2-tester.py)
    client           \* SpecAgent: the agent's C2Client (src/c2-client.py)

vars == <<command_store, uuids, request, response, handed, before, threads,
          issued, tester, client>>

\* The programs that call the server over HTTP.
callers == <<tester, client>>

\* ---------------------------------------------------------------- helpers
Put(f, k, v) == [x \in DOMAIN f \cup {k} |-> IF x = k THEN v ELSE f[x]]

Range(s) == {s[i] : i \in DOMAIN s}

\* How often cmd id occurs in a sequence of command records.
Occurrences(recs, id) == Cardinality({i \in DOMAIN recs : recs[i].id = id})

\* ------------------------------------------------------------ CommandStore
CommandStore_init ==
    [client_commands |-> <<>>, command_details |-> <<>>, heap |-> <<>>]

\* Mutant: the id generator repeats its last value.
uuid4_repeating == IF uuids = 0 THEN 1 ELSE uuids

\* uuid.uuid4(): a value never drawn before.
uuid4 == uuids + 1

\* Mutant: the membership test of line 26 is missing.
CommandStore_register_client_reset(s, client_id) ==
    [s EXCEPT !.client_commands = Put(@, client_id, <<>>)]

CommandStore_register_client(s, client_id) ==
    IF client_id \notin DOMAIN s.client_commands
    THEN [s EXCEPT !.client_commands = Put(@, client_id, <<>>)]
    ELSE s

\* Mutant: line 47 inserts the new command at the head of the client's list.
CommandStore_add_command_prepend(s, client_id, command, cmd_id) ==
    LET cmd_obj == [id |-> cmd_id, command |-> command,
                    status |-> "pending", result |-> None]
        ref == Len(s.heap) + 1
        s1 == CommandStore_register_client(s, client_id)
        s2 == [s1 EXCEPT !.heap = Append(@, cmd_obj),
                         !.client_commands[client_id] = <<ref>> \o @]
        s3 == [s2 EXCEPT !.command_details =
                  Put(@, cmd_id, [client_id |-> client_id, command |-> command,
                                  status |-> "pending", result |-> None])]
    IN  [store |-> s3, ret |-> cmd_id]

\* cmd_id is the uuid4() value drawn at line 32.
CommandStore_add_command(s, client_id, command, cmd_id) ==
    LET cmd_obj == [id |-> cmd_id, command |-> command,
                    status |-> "pending", result |-> None]
        ref == Len(s.heap) + 1
        s1 == IF client_id \notin DOMAIN s.client_commands
              THEN CommandStore_register_client(s, client_id)
              ELSE s
        s2 == [s1 EXCEPT !.heap = Append(@, cmd_obj),
                         !.client_commands[client_id] = Append(@, ref)]
        s3 == [s2 EXCEPT !.command_details =
                  Put(@, cmd_id, [client_id |-> client_id, command |-> command,
                                  status |-> "pending", result |-> None])]
    IN  [store |-> s3, ret |-> cmd_id]

\* Mutant: the loop that marks the handed-out commands is missing.
MarkSent_skipped(s, pending) == [store |-> s, raised |-> FALSE]

\* Mutant: the loop marks the dicts of the client's list only; line 69,
\* which marks the ledger entry, is missing.
MarkSent_queueonly(s, pending) ==
    [store |-> [s EXCEPT !.heap =
                   [ref \in DOMAIN s.heap |->
                       IF ref \in Range(pending)
                       THEN [s.heap[ref] EXCEPT !.status = "sent"]
                       ELSE s.heap[ref]]],
     raised |-> FALSE]

\* The loop of lines 67-69 over the references in pending; raised is TRUE
\* when the subscript command_details[cmd["id"]] at line 69 raises KeyError.
RECURSIVE MarkSent(_, _)
MarkSent(s, pending) ==
    IF pending = <<>> THEN [store |-> s, raised |-> FALSE]
    ELSE LET ref == Head(pending)
             s1 == [s EXCEPT !.heap[ref].status = "sent"]
             id == s1.heap[ref].id
         IN  IF id \notin DOMAIN s1.command_details
             THEN [store |-> s1, raised |-> TRUE]
             ELSE MarkSent([s1 EXCEPT !.command_details[id].status = "sent"],
                           Tail(pending))

\* Mutant: the comprehension lacks its status filter.
PendingRefs_unfiltered(s, client_id) == s.client_commands[client_id]

\* Mutant: the comprehension runs over the commands of every client.
PendingRefs_anyclient(s, client_id) ==
    SelectSeq([ref \in 1 .. Len(s.heap) |-> ref],
              LAMBDA ref : s.heap[ref].status = "pending")

\* The references selected by the list comprehension at line 64.
PendingRefs(s, client_id) ==
    SelectSeq(s.client_commands[client_id],
              LAMBDA ref : s.heap[ref].status = "pending")

\* Mutant: the method returns copies of the dicts made before the loop.
CommandStore_get_pending_commands_copies(s, client_id) ==
    IF client_id \notin DOMAIN s.client_commands
    THEN [store |-> s, ret |-> <<>>, raised |-> FALSE]
    ELSE LET pending == PendingRefs(s, client_id)
             m == MarkSent(s, pending)
         IN  [store |-> m.store,
              ret |-> [i \in 1 .. Len(pending) |-> s.heap[pending[i]]],
              raised |-> m.raised]

\* Mutant: the membership test of line 60 is missing; the subscript at
\* line 64 raises KeyError for a client the store has never seen.
CommandStore_get_pending_commands_keyerror(s, client_id) ==
    IF client_id \notin DOMAIN s.client_commands
    THEN [store |-> s, ret |-> <<>>, raised |-> TRUE]
    ELSE LET pending == PendingRefs(s, client_id)
             m == MarkSent(s, pending)
         IN  [store |-> m.store,
              ret |-> [i \in 1 .. Len(pending) |-> m.store.heap[pending[i]]],
              raised |-> m.raised]

\* ret is the list as the caller sees it: the referenced dicts, after the loop.
CommandStore_get_pending_commands(s, client_id) ==
    IF client_id \notin DOMAIN s.client_commands
    THEN [store |-> s, ret |-> <<>>, raised |-> FALSE]
    ELSE LET pending == PendingRefs(s, client_id)
             m == MarkSent(s, pending)
         IN  [store |-> m.store,
              ret |-> [i \in 1 .. Len(pending) |-> m.store.heap[pending[i]]],
              raised |-> m.raised]

\* The first position in the client's list whose dict has this id (0: none).
FirstWithId(s, refs, cmd_id) ==
    LET hits == {i \in 1 .. Len(refs) : s.heap[refs[i]].id = cmd_id}
    IN  IF hits = {} THEN 0 ELSE CHOOSE i \in hits : \A j \in hits : i <= j

\* Mutant: the first result wins; a completed command is left as it is.
CommandStore_update_command_result_first(s, cmd_id, result) ==
    IF cmd_id \notin DOMAIN s.command_details
    THEN [store |-> s, ret |-> FALSE]
    ELSE IF s.command_details[cmd_id].status = "completed"
    THEN [store |-> s, ret |-> TRUE]
    ELSE LET s1 == [s EXCEPT !.command_details[cmd_id].status = "completed",
                             !.command_details[cmd_id].result = result]
             refs == s1.client_commands[s1.command_details[cmd_id].client_id]
             k == FirstWithId(s1, refs, cmd_id)
         IN  [store |-> [s1 EXCEPT !.heap[refs[k]].status = "completed",
                                   !.heap[refs[k]].result = result],
              ret |-> TRUE]

\* Mutant: the membership test of line 75 is missing; an unknown id gets a
\* ledger entry.
CommandStore_update_command_result_upsert(s, cmd_id, result) ==
    [store |-> [s EXCEPT !.command_details =
                   Put(@, cmd_id, [client_id |-> NoClient, command |-> NoText,
                                   status |-> "completed", result |-> result])],
     ret |-> TRUE]

\* Mutant: the ledger entry is rebuilt from the result alone, losing owner
\* and text.
CommandStore_update_command_result_rebuild(s, cmd_id, result) ==
    IF cmd_id \notin DOMAIN s.command_details
    THEN [store |-> s, ret |-> FALSE]
    ELSE [store |-> [s EXCEPT !.command_details[cmd_id] =
                        [client_id |-> NoClient, command |-> NoText,
                         status |-> "completed", result |-> result]],
          ret |-> TRUE]

\* Mutant: a completed command is dropped from the ledger.
CommandStore_update_command_result_evict(s, cmd_id, result) ==
    IF cmd_id \notin DOMAIN s.command_details
    THEN [store |-> s, ret |-> FALSE]
    ELSE [store |-> [s EXCEPT !.command_details =
                        [id \in DOMAIN s.command_details \ {cmd_id} |->
                            s.command_details[id]]],
          ret |-> TRUE]

CommandStore_update_command_result(s, cmd_id, result) ==
    IF cmd_id \notin DOMAIN s.command_details
    THEN [store |-> s, ret |-> FALSE]
    ELSE LET s1 == [s EXCEPT !.command_details[cmd_id].status = "completed",
                             !.command_details[cmd_id].result = result]
             client_id == s1.command_details[cmd_id].client_id
             refs == s1.client_commands[client_id]
             k == FirstWithId(s1, refs, cmd_id)
             s2 == IF k = 0 THEN s1
                   ELSE [s1 EXCEPT !.heap[refs[k]].status = "completed",
                                   !.heap[refs[k]].result = result]
         IN  [store |-> s2, ret |-> TRUE]

CommandStore_list_clients(s) == DOMAIN s.client_commands

CommandStore_get_client_commands(s, client_id) ==
    IF client_id \notin DOMAIN s.client_commands
    THEN <<>>
    ELSE [i \in 1 .. Len(s.client_commands[client_id]) |->
             s.heap[s.client_commands[client_id][i]]]

CommandStore_get_command_details(s, cmd_id) ==
    IF cmd_id \notin DOMAIN s.command_details
    THEN None
    ELSE s.command_details[cmd_id]

\* ---------------------------------------------------------------- requests
Req(op, client_id, command, cmd_id, result) ==
    [op |-> op, client_id |-> client_id, command |-> command,
     cmd_id |-> cmd_id, result |-> result]

\* A response: the HTTP status code and the JSON object of the body.
Resp(code, body) == [code |-> code, body |-> body]

\* The body of an error response (lines 122, 133, 139, 147, 173).
Error(message) == [status |-> "error", message |-> message]

\* The body of the 200 response of the status route (line 171).
StatusJson(details) == [status |-> "success", command |-> details]

\* One entry of issued.
Issue(id, client_id, command) == [id |-> id, client_id |-> client_id, command |-> command]

\* The poll log after a poll of client_id returned the records in ret.
Handed(h, client_id, ret) ==
    [id \in DOMAIN h |->
        IF Occurrences(ret, id) > 0 THEN Append(h[id], client_id) ELSE h[id]]

Threads == {"t1", "t2"}         \* SpecPar: threads calling the store in parallel

\* A thread between calls; after a call, ret / raised hold its outcome.
\* overlap, seen and unseen are history: whether the call ran while another
\* thread's call was in progress, the pending ids of the polled client when
\* the call began, and whether the client was unknown when the call began.
ThreadIdle ==
    [pc |-> "idle", op |-> "none", client_id |-> NoClient, command |-> NoText,
     cmd_id |-> NoCmd, pending |-> <<>>, i |-> 0, ret |-> None, raised |-> FALSE,
     overlap |-> FALSE, seen |-> {}, unseen |-> FALSE]

\* before, when the request names no command of the ledger.
NoRecord == [client_id |-> NoClient, command |-> NoText, status |-> "none", result |-> None]

Before(s, cmd_id) ==
    IF cmd_id \in DOMAIN s.command_details THEN s.command_details[cmd_id] ELSE NoRecord

InitStore ==
    /\ before = NoRecord
    /\ command_store = CommandStore_init
    /\ uuids = 0
    /\ request = Req("none", NoClient, NoText, NoCmd, None)
    /\ response = Resp(0, [status |-> "none"])
    /\ handed = [id \in CmdIds |-> <<>>]
    /\ issued = <<>>

\* No tester and no agent program is running.
NoCallers ==
    /\ tester = <<>>
    /\ client = <<>>

\* The server as it runs: one event loop, no thread calls the store.
Init ==
    /\ InitStore
    /\ NoCallers
    /\ threads = <<>>

\* ---------------------------------------------------------------- handlers
\* POST /api/register.  A request without client_id gets a generated one;
\* either way the identifier is some member of Agents.
register_client(client_id) ==
    /\ command_store' = CommandStore_register_client(command_store, client_id)
    /\ request' = Req("register_client", client_id, NoText, NoCmd, None)
    /\ before' = NoRecord
    /\ response' = Resp(200, [status |-> "success", client_id |-> client_id])
    /\ UNCHANGED <<uuids, handed, threads, issued>>

\* POST /api/commands/get
get_commands(client_id) ==
    /\ request' = Req("get_commands", client_id, NoText, NoCmd, None)
    /\ before' = NoRecord
    /\ IF client_id = NoClient
       THEN /\ response' = Resp(400, Error("Client ID required"))
            /\ UNCHANGED <<command_store, handed>>
       ELSE LET r == CommandStore_get_pending_commands(command_store, client_id)
            IN  /\ command_store' = r.store
                /\ IF r.raised
                   THEN /\ response' = Resp(500, Error("KeyError"))
                        /\ UNCHANGED handed
                   ELSE /\ response' = Resp(200, [status |-> "success", commands |-> r.ret])
                        /\ handed' = Handed(handed, client_id, r.ret)
    /\ UNCHANGED <<uuids, threads, issued>>

\* Mutant: the handler does not reject a request whose result is None.
submit_result_unchecked(cmd_id, result) ==
    /\ request' = Req("submit_result", NoClient, NoText, cmd_id, result)
    /\ before' = Before(command_store, cmd_id)
    /\ IF cmd_id = NoCmd
       THEN /\ response' = Resp(400, Error("Command ID and result required"))
            /\ UNCHANGED command_store
       ELSE LET r == CommandStore_update_command_result(command_store, cmd_id, result)
            IN  /\ command_store' = r.store
                /\ response' = IF r.ret THEN Resp(200, [status |-> "success"])
                               ELSE Resp(404, Error("Command not found"))
    /\ UNCHANGED <<uuids, handed, threads, issued>>

\* POST /api/commands/submit
submit_result(cmd_id, result) ==
    /\ request' = Req("submit_result", NoClient, NoText, cmd_id, result)
    /\ before' = Before(command_store, cmd_id)
    /\ IF cmd_id = NoCmd \/ result = None
       THEN /\ response' = Resp(400, Error("Command ID and result required"))
            /\ UNCHANGED command_store
       ELSE LET r == CommandStore_update_command_result(command_store, cmd_id, result)
            IN  /\ command_store' = r.store
                /\ response' = IF r.ret THEN Resp(200, [status |-> "success"])
                               ELSE Resp(404, Error("Command not found"))
    /\ UNCHANGED <<uuids, handed, threads, issued>>

\* POST /api/commands/send
send_command(client_id, command) ==
    /\ request' = Req("send_command", client_id, command, NoCmd, None)
    /\ before' = NoRecord
    /\ IF client_id = NoClient \/ command = NoText
       THEN /\ response' = Resp(400, Error("Client ID and command required"))
            /\ UNCHANGED <<command_store, uuids, issued>>
       ELSE /\ uuids < MaxCmds
            /\ LET r == CommandStore_add_command(command_store, client_id, command, uuid4)
               IN  /\ command_store' = r.store
                   /\ response' = Resp(200, [status |-> "success", cmd_id |-> r.ret])
                   /\ issued' = Append(issued, Issue(r.ret, client_id, command))
            /\ uuids' = uuids + 1
    /\ UNCHANGED <<handed, threads>>

\* GET /api/clients
list_clients ==
    /\ request' = Req("list_clients", NoClient, NoText, NoCmd, None)
    /\ before' = NoRecord
    /\ response' = Resp(200, [status |-> "success",
                            clients |-> CommandStore_list_clients(command_store)])
    /\ UNCHANGED <<command_store, uuids, handed, threads, issued>>

\* GET /api/clients/{client_id}/history
get_client_history(client_id) ==
    /\ request' = Req("get_client_history", client_id, NoText, NoCmd, None)
    /\ before' = NoRecord
    /\ response' = Resp(200, [status |-> "success",
                            commands |-> CommandStore_get_client_commands(command_store,
                                                                          client_id)])
    /\ UNCHANGED <<command_store, uuids, handed, threads, issued>>

\* GET /api/commands/{cmd_id}
get_command_status(cmd_id) ==
    /\ request' = Req("get_command_status", NoClient, NoText, cmd_id, None)
    /\ before' = Before(command_store, cmd_id)
    /\ LET details == CommandStore_get_command_details(command_store, cmd_id)
       IN  \* "if details:" fails exactly when line 104 returned None
           response' = IF cmd_id \in DOMAIN command_store.command_details
                       THEN Resp(200, StatusJson(details))
                       ELSE Resp(404, Error("Command not found"))
    /\ UNCHANGED <<command_store, uuids, handed, threads, issued>>

\* The requests of a run.  The validation of lines 121, 132 and 146 looks
\* only at whether a field is empty, so one request per empty field stands
\* for all of them.
PollInputs == Agents \cup {NoClient}
SubmitInputs == (CmdIds \X Results) \cup {<<NoCmd, "r1">>, <<1, None>>}
SendInputs == (Agents \X Texts) \cup {<<NoClient, "whoami">>, <<"a1", NoText>>}

\* The routes of lines 177-185, requested by some program other than the
\* tester and the agent modelled below.
http_register_client(client_id) == register_client(client_id) /\ UNCHANGED callers
http_get_commands(client_id) == get_commands(client_id) /\ UNCHANGED callers
http_submit_result(cmd_id, result) == submit_result(cmd_id, result) /\ UNCHANGED callers
http_send_command(client_id, command) == send_command(client_id, command) /\ UNCHANGED callers
http_list_clients == list_clients /\ UNCHANGED callers
http_get_client_history(client_id) == get_client_history(client_id) /\ UNCHANGED callers
http_get_command_status(cmd_id) == get_command_status(cmd_id) /\ UNCHANGED callers

Next ==
    \/ \E client_id \in Agents : http_register_client(client_id)
    \/ \E client_id \in PollInputs : http_get_commands(client_id)
    \/ \E in \in SubmitInputs : http_submit_result(in[1], in[2])
    \/ \E in \in SendInputs : http_send_command(in[1], in[2])
    \/ http_list_clients
    \/ \E client_id \in Agents : http_get_client_history(client_id)
    \/ \E cmd_id \in CmdIds : http_get_command_status(cmd_id)

Spec == Init /\ [][Next]_vars

\* ------------------------------------------------- SpecPar: parallel callers
\* The store methods executed by threads in true parallel, one statement of
\* a method per step.  The store takes no lock (no statement of CommandStore
\* acquires one), so the statements of different calls interleave freely.
Busy(t) == threads[t].pc # "idle"

PendingIds(s, client_id) ==
    IF client_id \notin DOMAIN s.client_commands THEN {}
    ELSE {s.heap[ref].id : ref \in Range(PendingRefs(s, client_id))}

\* Thread t enters method op at line pc.
Begin(t, op, client_id, command, cmd_id, pc) ==
    threads' = [u \in Threads |->
        IF u = t
        THEN [ThreadIdle EXCEPT !.pc = pc, !.op = op, !.client_id = client_id,
                 !.command = command, !.cmd_id = cmd_id,
                 !.overlap = \E v \in Threads \ {t} : Busy(v),
                 !.seen = PendingIds(command_store, client_id),
                 !.unseen = client_id \notin DOMAIN command_store.client_commands]
        ELSE IF Busy(u) THEN [threads[u] EXCEPT !.overlap = TRUE]
        ELSE threads[u]]

call_register_client(t, client_id) ==
    /\ ~Busy(t)
    /\ Begin(t, "register_client", client_id, NoText, NoCmd, "L26")
    /\ UNCHANGED <<command_store, uuids, request, response, handed, before, issued, tester, client>>

\* Lines 32-41: draw the id and build cmd_obj (local to the thread).
call_add_command(t, client_id, command) ==
    /\ ~Busy(t)
    /\ uuids < MaxCmds
    /\ Begin(t, "add_command", client_id, command, uuid4, "L44")
    /\ uuids' = uuids + 1
    /\ issued' = Append(issued, Issue(uuid4, client_id, command))
    /\ UNCHANGED <<command_store, request, response, handed, before, tester, client>>

call_get_pending_commands(t, client_id) ==
    /\ ~Busy(t)
    /\ Begin(t, "get_pending_commands", client_id, NoText, NoCmd, "L60")
    /\ UNCHANGED <<command_store, uuids, request, response, handed, before, issued, tester, client>>

\* register_client returns: to its caller add_command (line 45) or to the
\* handler.
ReturnFromRegister(t) ==
    IF threads[t].op = "add_command"
    THEN threads' = [threads EXCEPT ![t].pc = "L47"]
    ELSE threads' = [threads EXCEPT ![t].pc = "idle"]

register_client_L26(t) ==
    /\ threads[t].pc = "L26"
    /\ IF threads[t].client_id \notin DOMAIN command_store.client_commands
       THEN threads' = [threads EXCEPT ![t].pc = "L27"]
       ELSE ReturnFromRegister(t)
    /\ UNCHANGED <<command_store, uuids, request, response, handed, before, issued, tester, client>>

register_client_L27(t) ==
    /\ threads[t].pc = "L27"
    /\ command_store' = [command_store EXCEPT
           !.client_commands = Put(@, threads[t].client_id, <<>>)]
    /\ ReturnFromRegister(t)
    /\ UNCHANGED <<uuids, request, response, handed, before, issued, tester, client>>

add_command_L44(t) ==
    /\ threads[t].pc = "L44"
    /\ IF threads[t].client_id \notin DOMAIN command_store.client_commands
       THEN threads' = [threads EXCEPT ![t].pc = "L26"]
       ELSE threads' = [threads EXCEPT ![t].pc = "L47"]
    /\ UNCHANGED <<command_store, uuids, request, response, handed, before, issued, tester, client>>

\* No statement removes a key of client_commands, so the subscript at line 47
\* cannot raise here.
add_command_L47(t) ==
    /\ threads[t].pc = "L47"
    /\ LET cmd_obj == [id |-> threads[t].cmd_id, command |-> threads[t].command,
                       status |-> "pending", result |-> None]
           ref == Len(command_store.heap) + 1
       IN  command_store' = [command_store EXCEPT
               !.heap = Append(@, cmd_obj),
               !.client_commands[threads[t].client_id] = Append(@, ref)]
    /\ threads' = [threads EXCEPT ![t].pc = "L48"]
    /\ UNCHANGED <<uuids, request, response, handed, before, issued, tester, client>>

\* Lines 48-57.
add_command_L48(t) ==
    /\ threads[t].pc = "L48"
    /\ command_store' = [command_store EXCEPT !.command_details =
           Put(@, threads[t].cmd_id,
               [client_id |-> threads[t].client_id, command |-> threads[t].command,
                status |-> "pending", result |-> None])]
    /\ threads' = [threads EXCEPT ![t].pc = "idle", ![t].ret = threads[t].cmd_id]
    /\ UNCHANGED <<uuids, request, response, handed, before, issued, tester, client>>

get_pending_commands_L60(t) ==
    /\ threads[t].pc = "L60"
    /\ IF threads[t].client_id \notin DOMAIN command_store.client_commands
       THEN threads' = [threads EXCEPT ![t].pc = "idle", ![t].ret = <<>>]
       ELSE threads' = [threads EXCEPT ![t].pc = "L64"]
    /\ UNCHANGED <<command_store, uuids, request, response, handed, before, issued, tester, client>>

get_pending_commands_L64(t) ==
    /\ threads[t].pc = "L64"
    /\ threads' = [threads EXCEPT ![t].pc = "L67", ![t].i = 1,
           ![t].pending = PendingRefs(command_store, threads[t].client_id)]
    /\ UNCHANGED <<command_store, uuids, request, response, handed, before, issued, tester, client>>

\* Line 67 with line 68, or with the return at line 72 when the loop is over.
get_pending_commands_L67(t) ==
    /\ threads[t].pc = "L67"
    /\ LET pending == threads[t].pending
           i == threads[t].i
       IN  IF i <= Len(pending)
           THEN /\ command_store' = [command_store EXCEPT
                       !.heap[pending[i]].status = "sent"]
                /\ threads' = [threads EXCEPT ![t].pc = "L69"]
                /\ UNCHANGED handed
           ELSE LET ret == [k \in 1 .. Len(pending) |-> command_store.heap[pending[k]]]
                IN  /\ threads' = [threads EXCEPT ![t].pc = "idle", ![t].ret = ret]
                    /\ handed' = Handed(handed, threads[t].client_id, ret)
                    /\ UNCHANGED command_store
    /\ UNCHANGED <<uuids, request, response, before, issued, tester, client>>

\* Line 69; the subscript raises KeyError when the ledger lacks the id.
get_pending_commands_L69(t) ==
    /\ threads[t].pc = "L69"
    /\ LET id == command_store.heap[threads[t].pending[threads[t].i]].id
       IN  IF id \notin DOMAIN command_store.command_details
           THEN /\ threads' = [threads EXCEPT ![t].pc = "idle", ![t].raised = TRUE]
                /\ UNCHANGED command_store
           ELSE /\ command_store' = [command_store EXCEPT
                       !.command_details[id].status = "sent"]
                /\ threads' = [threads EXCEPT ![t].pc = "L67", ![t].i = @ + 1]
    /\ UNCHANGED <<uuids, request, response, handed, before, issued, tester, client>>

NextPar ==
    \/ \E t \in Threads, client_id \in Agents : call_register_client(t, client_id)
    \/ \E t \in Threads, client_id \in Agents, command \in Texts :
          call_add_command(t, client_id, command)
    \/ \E t \in Threads, client_id \in Agents : call_get_pending_commands(t, client_id)
    \/ \E t \in Threads : register_client_L26(t)
    \/ \E t \in Threads : register_client_L27(t)
    \/ \E t \in Threads : add_command_L44(t)
    \/ \E t \in Threads : add_command_L47(t)
    \/ \E t \in Threads : add_command_L48(t)
    \/ \E t \in Threads : get_pending_commands_L60(t)
    \/ \E t \in Threads : get_pending_commands_L64(t)
    \/ \E t \in Threads : get_pending_commands_L67(t)
    \/ \E t \in Threads : get_pending_commands_L69(t)

InitPar ==
    /\ InitStore
    /\ NoCallers
    /\ threads = [t \in Threads |-> ThreadIdle]

SpecPar == InitPar /\ [][NextPar]_vars

\* ------------------------------------------- SpecWait: the operator's tester
\* C2Tester.wait_for_command_completion (src/c2-tester.py lines 95-121) run
\* against the server, while other programs issue, poll and submit.
Timeout == 2            \* the timeout argument, in seconds (sleeps of line 118)

\* dict.get(key) of a JSON object.
Get(d, key) == IF key \in DOMAIN d THEN d[key] ELSE None

\* What C2Tester.get_command_status returns when it has no JSON to return
\* (lines 90 and 93): None, which "not status" treats like this empty dict.
NoJson == <<>>

\* The tester between calls.  failed, notfound, saw and sawResult are
\* history: whether the latest status request failed in transport, whether
\* it was answered 404, whether some status request of this call was
\* answered while the command was completed on the server, and the result
\* the server stored at that moment.
TesterIdle ==
    [pc |-> "idle", cmd_id |-> NoCmd, elapsed |-> 0, status |-> NoJson,
     ret |-> None, failed |-> FALSE, notfound |-> FALSE,
     saw |-> FALSE, sawResult |-> None]

\* Lines 106: the call begins.
wait_for_command_completion(cmd_id) ==
    /\ tester.pc \in {"idle", "done"}
    /\ tester' = [TesterIdle EXCEPT !.pc = "L108", !.cmd_id = cmd_id]
    /\ UNCHANGED <<command_store, uuids, request, response, handed, before,
                   threads, issued, client>>

\* Line 108: the loop test; lines 120-121 when the time is up.
wait_L108 ==
    /\ tester.pc = "L108"
    /\ tester' = IF tester.elapsed < Timeout
                 THEN [tester EXCEPT !.pc = "L109"]
                 ELSE [tester EXCEPT !.pc = "done", !.ret = None]
    /\ UNCHANGED <<command_store, uuids, request, response, handed, before,
                   threads, issued, client>>

\* Line 109, the request is answered: C2Tester.get_command_status returns the
\* JSON body of a 200 response (line 87) and None for any other (line 90).
wait_L109 ==
    /\ tester.pc = "L109"
    /\ get_command_status(tester.cmd_id)
    /\ tester' = [tester EXCEPT
          !.pc = "L111",
          !.failed = FALSE,
          !.notfound = response'.code # 200,
          !.status = IF response'.code = 200 THEN response'.body
                     ELSE NoJson,
          !.saw = @ \/ (/\ response'.code = 200
                         /\ response'.body.command.status = "completed"),
          !.sawResult = IF /\ response'.code = 200
                           /\ response'.body.command.status = "completed"
                        THEN response'.body.command.result ELSE @]
    /\ UNCHANGED client

\* Line 109, the request fails in transport: the exception is caught at
\* line 91 and get_command_status returns None.  The server sees nothing.
wait_L109_failed ==
    /\ tester.pc = "L109"
    /\ tester' = [tester EXCEPT !.pc = "L111", !.failed = TRUE,
                                 !.notfound = FALSE, !.status = NoJson]
    /\ UNCHANGED <<command_store, uuids, request, response, handed, before,
                   threads, issued, client>>

\* What lines 111-118 do with the status just read.
AfterStatus(t) ==
    IF DOMAIN t.status = {}
    THEN [t EXCEPT !.pc = "done", !.ret = None]
    ELSE IF Get(t.status, "status") = "completed"
    THEN [t EXCEPT !.pc = "done", !.ret = Get(t.status, "result")]
    ELSE [t EXCEPT !.pc = "L118"]

wait_L111 ==
    /\ tester.pc = "L111"
    /\ tester' = AfterStatus(tester)
    /\ UNCHANGED <<command_store, uuids, request, response, handed, before,
                   threads, issued, client>>

\* Line 118: asyncio.sleep(1).
wait_L118 ==
    /\ tester.pc = "L118"
    /\ tester' = [tester EXCEPT !.pc = "L108", !.elapsed = @ + 1]
    /\ UNCHANGED <<command_store, uuids, request, response, handed, before,
                   threads, issued, client>>

NextWait ==
    \/ \E in \in Agents \X Texts : http_send_command(in[1], in[2])
    \/ \E client_id \in Agents : http_get_commands(client_id)
    \/ \E in \in CmdIds \X Results : http_submit_result(in[1], in[2])
    \/ \E cmd_id \in CmdIds : wait_for_command_completion(cmd_id)
    \/ wait_L108
    \/ wait_L109
    \/ wait_L109_failed
    \/ wait_L111
    \/ wait_L118

InitWait ==
    /\ InitStore
    /\ threads = <<>>
    /\ client = <<>>
    /\ tester = TesterIdle

SpecWait == InitWait /\ [][NextWait]_vars

\* ---------------------------------------------------- SpecAgent: the agent
\* C2Client.run (src/c2-client.py lines 154-181) against the server, while
\* the operator issues commands.  Every request of the agent either is
\* answered or fails in transport; a failed request may or may not have
\* reached the server before it failed.
server == <<command_store, uuids, request, response, handed, before, threads,
            issued>>

\* C2Client.execute_command: the output of a command text.
execute_command(command) == IF command = "whoami" THEN "r1" ELSE "r2"

\* C2Client.__init__ (lines 32-35).  failed, looping, stopped and submitted
\* are history: the kind of the latest failed request since the last poll,
\* whether the polling loop was entered, whether stop() was called, and the
\* ids for which a result was submitted, in order.
C2Client_init(client_id) ==
    [pc |-> "new", client_id |-> client_id, running |-> FALSE,
     commands |-> <<>>, failed |-> "none", looping |-> FALSE,
     stopped |-> FALSE, submitted |-> <<>>]

\* Line 156.
run ==
    /\ client.pc = "new"
    /\ client' = [client EXCEPT !.pc = "L159", !.running = TRUE]
    /\ UNCHANGED <<server, tester>>

\* Lines 159-165: register() answered 200; the loop is entered.
run_L159 ==
    /\ client.pc = "L159"
    /\ register_client(client.client_id)
    /\ client' = [client EXCEPT !.pc = "L167", !.looping = TRUE]
    /\ UNCHANGED tester

\* Lines 51-53 and 160-162: register() fails and run returns.
run_L159_failed(reached) ==
    /\ client.pc = "L159"
    /\ IF reached THEN register_client(client.client_id) ELSE UNCHANGED server
    /\ client' = [client EXCEPT !.pc = "returned", !.failed = "register"]
    /\ UNCHANGED tester

\* Line 167: while self.running.
run_L167 ==
    /\ client.pc = "L167"
    /\ client' = [client EXCEPT !.pc = IF client.running THEN "L170" ELSE "returned"]
    /\ UNCHANGED <<server, tester>>

\* Mutant: only the first command of a poll response is kept.
poll_commands_firstonly(c, resp) ==
    [c EXCEPT !.pc = "L173", !.failed = "none",
              !.commands = IF resp.code = 200 /\ resp.body.commands # <<>>
                           THEN <<resp.body.commands[1]>> ELSE <<>>]

\* poll_commands, lines 62-65: the commands of a 200 response.
poll_commands(c, resp) ==
    [c EXCEPT !.pc = "L173", !.failed = "none",
              !.commands = IF resp.code = 200 THEN resp.body.commands ELSE <<>>]

\* Mutant: the exception of a failed poll leaves poll_commands and run.
poll_commands_raises(c) ==
    [c EXCEPT !.pc = "returned", !.failed = "poll", !.commands = <<>>]

\* poll_commands, lines 69-71: the exception is caught, [] is returned.
poll_commands_failed(c) ==
    [c EXCEPT !.pc = "L173", !.failed = "poll", !.commands = <<>>]

\* Line 170, answered.
run_L170 ==
    /\ client.pc = "L170"
    /\ get_commands(client.client_id)
    /\ client' = poll_commands(client, response')
    /\ UNCHANGED tester

\* Line 170, failed in transport.
run_L170_failed(reached) ==
    /\ client.pc = "L170"
    /\ IF reached THEN get_commands(client.client_id) ELSE UNCHANGED server
    /\ client' = poll_commands_failed(client)
    /\ UNCHANGED tester

\* Line 173 with nothing (left) to process: on to the sleep.
run_L173 ==
    /\ client.pc = "L173"
    /\ client.commands = <<>>
    /\ client' = [client EXCEPT !.pc = "L176"]
    /\ UNCHANGED <<server, tester>>

\* submit_result, lines 79-84: answered (True or False, which
\* process_commands ignores); the loop of lines 142-152 goes on.
C2Client_submit_result(c) ==
    [c EXCEPT !.commands = Tail(@),
              !.submitted = Append(@, c.commands[1].id)]

\* submit_result, lines 85-87: the exception is caught, False is returned.
C2Client_submit_result_failed(c) ==
    [c EXCEPT !.commands = Tail(@), !.failed = "submit",
              !.submitted = Append(@, c.commands[1].id)]

\* Lines 142-152, one turn of the loop: execute the next command of the poll
\* response and submit its result.
process_commands ==
    /\ client.pc = "L173"
    /\ client.commands # <<>>
    /\ submit_result(client.commands[1].id,
                     execute_command(client.commands[1].command))
    /\ client' = C2Client_submit_result(client)
    /\ UNCHANGED tester

\* The same turn when the submission fails in transport.
process_commands_failed(reached) ==
    /\ client.pc = "L173"
    /\ client.commands # <<>>
    /\ IF reached
       THEN submit_result(client.commands[1].id,
                          execute_command(client.commands[1].command))
       ELSE UNCHANGED server
    /\ client' = C2Client_submit_result_failed(client)
    /\ UNCHANGED tester

\* Line 176: asyncio.sleep(poll_interval), then back to the loop test.
run_L176 ==
    /\ client.pc = "L176"
    /\ client' = [client EXCEPT !.pc = "L167"]
    /\ UNCHANGED <<server, tester>>

\* Lines 183-186, called while run is under way.
stop ==
    /\ client.pc \notin {"new", "returned"}
    /\ client.running
    /\ client' = [client EXCEPT !.running = FALSE, !.stopped = TRUE]
    /\ UNCHANGED <<server, tester>>

NextAgent ==
    \/ \E in \in Agents \X Texts : http_send_command(in[1], in[2])
    \/ run
    \/ run_L159
    \/ \E reached \in BOOLEAN : run_L159_failed(reached)
    \/ run_L167
    \/ run_L170
    \/ \E reached \in BOOLEAN : run_L170_failed(reached)
    \/ run_L173
    \/ process_commands
    \/ \E reached \in BOOLEAN : process_commands_failed(reached)
    \/ run_L176
    \/ stop

InitAgent ==
    /\ InitStore
    /\ threads = <<>>
    /\ tester = <<>>
    /\ \E client_id \in Agents : client = C2Client_init(client_id)

SpecAgent == InitAgent /\ [][NextAgent]_vars

\* ------------------------------------ SpecAgentFair: the agent, kept running
\* The agent of SpecAgent when nobody calls stop() and every poll and every
\* submission is answered; only its registration may still fail.  The event
\* loop resumes run whenever the request or the sleep it awaits is over, so
\* the agent's next step is taken whenever it stays possible.
AgentStep ==
    \/ run
    \/ run_L159
    \/ run_L167
    \/ run_L170
    \/ run_L173
    \/ process_commands
    \/ run_L176

NextAgentFair ==
    \/ \E in \in Agents \X Texts : http_send_command(in[1], in[2])
    \/ run
    \/ run_L159
    \/ \E reached \in BOOLEAN : run_L159_failed(reached)
    \/ run_L167
    \/ run_L170
    \/ run_L173
    \/ process_commands
    \/ run_L176

\* Every step of the agent changes client, so a step of it that changes
\* client is a step of it that changes the state.
SpecAgentFair == InitAgent /\ [][NextAgentFair]_vars /\ WF_client(AgentStep)

\* ================================================================= claims
Ledger == command_store.command_details
LedgerIds == DOMAIN command_store.command_details
Known == DOMAIN command_store.client_commands
Heap == command_store.heap
HeapRefs == 1 .. Len(command_store.heap)

\* The records of a client's queue, in queue order.
Queue(client_id) == CommandStore_get_client_commands(command_store, client_id)

\* The ids of a sequence of command records.
IdsOf(recs) == {recs[i].id : i \in DOMAIN recs}

\* C2: every command id is returned by at most one poll in total, and only
\* by a poll of the client that owns it.
C2_HandedOutAtMostOnce ==
    \A id \in CmdIds :
        /\ Len(handed[id]) <= 1
        /\ \A k \in 1 .. Len(handed[id]) :
              /\ id \in LedgerIds
              /\ handed[id][k] = Ledger[id].client_id

\* A command was handed out, never completed, and a later poll of its owner
\* came back empty.
C2_Witness ==
    /\ request.op = "get_commands"
    /\ response.code = 200
    /\ response.body.commands = <<>>
    /\ \E id \in LedgerIds :
          /\ Ledger[id].client_id = request.client_id
          /\ Ledger[id].status = "sent"
          /\ handed[id] = <<request.client_id>>

\* C3: in every step the status of every command (in the queue copy and in
\* the ledger copy) only moves forward: sent or completed never becomes
\* pending, completed never becomes anything else.
Forward(old, new) ==
    /\ old \in {"sent", "completed"} => new # "pending"
    /\ old = "completed" => new = "completed"

C3_StatusOnlyForward ==
    [][ /\ \A ref \in HeapRefs :
              Forward(command_store.heap[ref].status, command_store'.heap[ref].status)
        /\ \A id \in LedgerIds :
              Forward(command_store.command_details[id].status,
                      command_store'.command_details[id].status) ]_vars

\* A command that went pending -> sent -> completed survived a further poll
\* of its owner as completed.
C3_Witness ==
    /\ request.op = "get_commands"
    /\ response.code = 200
    /\ \E id \in LedgerIds :
          /\ Ledger[id].client_id = request.client_id
          /\ Ledger[id].status = "completed"
          /\ Len(handed[id]) = 1
          /\ \E ref \in HeapRefs : Heap[ref].id = id /\ Heap[ref].status = "completed"

\* C4: queues and ledger agree: every id in a client's queue is in the
\* ledger with that client as owner, every ledger command is in its owner's
\* queue, and each id occurs in exactly one queue exactly once.
C4_QueuesAndLedgerAgree ==
    /\ \A a \in Known : \A i \in DOMAIN Queue(a) :
          /\ Queue(a)[i].id \in LedgerIds
          /\ Ledger[Queue(a)[i].id].client_id = a
    /\ \A id \in LedgerIds :
          /\ Ledger[id].client_id \in Known
          /\ Occurrences(Queue(Ledger[id].client_id), id) = 1
          /\ \A a \in Known \ {Ledger[id].client_id} : Occurrences(Queue(a), id) = 0

\* Both clients own commands, one of them after an explicit registration
\* that followed its first command.
C4_Witness ==
    /\ Cardinality(LedgerIds) = 2
    /\ \A a \in Agents : a \in Known /\ Len(Queue(a)) = 1
    /\ request.op = "register_client"

\* C7: issue returns an id different from every id issued before, and
\* statusOf(id) right after it shows owner and text as given, status
\* pending, result absent.
C7_IssueFreshAndPending ==
    [][ \A client_id \in Agents, command \in Texts :
           send_command(client_id, command) =>
              /\ response'.code = 200
              /\ response'.body.cmd_id \notin DOMAIN command_store.command_details
              /\ \A ref \in HeapRefs : command_store.heap[ref].id # response'.body.cmd_id
              /\ CommandStore_get_command_details(command_store', response'.body.cmd_id)
                    = [client_id |-> client_id, command |-> command,
                       status |-> "pending", result |-> None] ]_vars

\* A second command was just issued, to a client that already owns an
\* earlier command with another text.
C7_Witness ==
    /\ request.op = "send_command"
    /\ response.code = 200
    /\ response.body.cmd_id = 2
    /\ Ledger[2].status = "pending"
    /\ Ledger[1].client_id = Ledger[2].client_id
    /\ Ledger[1].command # Ledger[2].command

\* The records of recs with status pending, in order.
PendingOf(recs) == SelectSeq(recs, LAMBDA rec : rec.status = "pending")

\* C8: drainPending(A) returns exactly A's pending commands, in issuance
\* order, shown as sent; afterwards each of them is sent (both copies), and
\* a second drainPending(A) right after returns none of them.
C8_DrainReturnsPending ==
    [][ \A client_id \in Agents :
           get_commands(client_id) =>
              LET was == PendingOf(Queue(client_id))
                  ret == response'.body.commands
              IN  /\ response'.code = 200
                  /\ ret = [i \in 1 .. Len(was) |-> [was[i] EXCEPT !.status = "sent"]]
                  /\ IdsOf(ret) = {id \in LedgerIds :
                                      /\ Ledger[id].client_id = client_id
                                      /\ Ledger[id].status = "pending"}
                  /\ \A id \in IdsOf(ret) :
                        /\ command_store'.command_details[id].status = "sent"
                        /\ \A ref \in HeapRefs : command_store'.heap[ref].id = id
                              => command_store'.heap[ref].status = "sent"
                  /\ IdsOf(CommandStore_get_pending_commands(
                              command_store', client_id).ret) \cap IdsOf(ret) = {} ]_vars

\* A poll returned two commands, in the order they were issued.
C8_Witness ==
    /\ request.op = "get_commands"
    /\ response.code = 200
    /\ Len(response.body.commands) = 2
    /\ response.body.commands[1].id = 1
    /\ response.body.commands[2].id = 2
    /\ response.body.commands[1].status = "sent"

\* C9: submitResult(id, r) on a known id succeeds whatever the prior status;
\* afterwards the status is completed and statusOf(id) returns r, also when
\* the command was already completed with another result.
C9_SubmitCompletes ==
    [][ \A cmd_id \in CmdIds, result \in Results :
           (submit_result(cmd_id, result) /\ cmd_id \in LedgerIds) =>
              /\ response'.code = 200
              /\ CommandStore_get_command_details(command_store', cmd_id).status
                    = "completed"
              /\ CommandStore_get_command_details(command_store', cmd_id).result
                    = result ]_vars

\* A completed command got a second, different result, which replaced the
\* first.
C9_Witness ==
    /\ request.op = "submit_result"
    /\ response.code = 200
    /\ before.status = "completed"
    /\ before.result # request.result
    /\ Ledger[request.cmd_id].result = request.result

\* C10: submitResult with an id that is not in the ledger answers not-found
\* and leaves the store (ledger, queues, known clients) unchanged.
C10_SubmitUnknownNoEffect ==
    [][ \A cmd_id \in CmdIds, result \in Results :
           (submit_result(cmd_id, result) /\ cmd_id \notin LedgerIds) =>
              /\ response'.code = 404
              /\ command_store' = command_store ]_vars

\* A result for an unknown id was refused while the ledger held a command.
C10_Witness ==
    /\ request.op = "submit_result"
    /\ response.code = 404
    /\ request.cmd_id \notin LedgerIds
    /\ LedgerIds # {}
    /\ \E a \in Known : Len(Queue(a)) > 0

\* ---------------------------------------------------- claims under SpecPar
\* Two distinct threads whose latest calls are finished and ran in parallel.
Parallel(t, u) ==
    /\ t # u
    /\ ~Busy(t) /\ ~Busy(u)
    /\ threads[t].overlap /\ threads[u].overlap

\* The statuses of the cmd_obj dicts with this id that a client's queue holds.
QueueStatuses(client_id, id) ==
    {Queue(client_id)[i].status :
        i \in {j \in DOMAIN Queue(client_id) : Queue(client_id)[j].id = id}}

\* C1: when two drainPending(A) calls run in parallel while A has exactly
\* one pending command, exactly one of them returns that command.
C1_ParallelDrainExactlyOnce ==
    \A t, u \in Threads :
        ( /\ Parallel(t, u)
          /\ threads[t].op = "get_pending_commands"
          /\ threads[u].op = "get_pending_commands"
          /\ threads[t].client_id = threads[u].client_id
          /\ ~threads[t].raised /\ ~threads[u].raised
          /\ threads[t].seen = threads[u].seen
          /\ Cardinality(threads[t].seen) = 1 )
        => \A id \in threads[t].seen :
              Occurrences(threads[t].ret, id) + Occurrences(threads[u].ret, id) = 1

\* C5: when issue(A, text) runs in parallel with drainPending(A), the drain
\* does not fail, and the new command ends either pending in queue and
\* ledger, or returned by that drain and sent in both.
C5_ParallelIssueDrain ==
    \A t, u \in Threads :
        ( /\ Parallel(t, u)
          /\ threads[t].op = "add_command"
          /\ threads[u].op = "get_pending_commands"
          /\ threads[t].client_id = threads[u].client_id )
        => /\ ~threads[u].raised
           /\ LET id == threads[t].cmd_id
                  a == threads[t].client_id
              IN  \/ /\ QueueStatuses(a, id) = {"pending"}
                     /\ Ledger[id].status = "pending"
                  \/ /\ Occurrences(threads[u].ret, id) = 1
                     /\ QueueStatuses(a, id) = {"sent"}
                     /\ Ledger[id].status = "sent"

\* C6: when two calls that first mention an unseen client A (register and
\* issue, or two issues) run in parallel, afterwards every command the
\* ledger records as owned by A is in A's queue.
C6_ParallelFirstMention ==
    \A t, u \in Threads :
        ( /\ Parallel(t, u)
          /\ threads[t].op = "add_command"
          /\ threads[u].op \in {"register_client", "add_command"}
          /\ threads[t].client_id = threads[u].client_id
          /\ threads[t].unseen /\ threads[u].unseen )
        => \A id \in LedgerIds :
              Ledger[id].client_id = threads[t].client_id
                 => Occurrences(Queue(threads[t].client_id), id) = 1

\* ------------------------------------------------------ claims under SpecWait
\* C11: wait_for_command_completion returns the command's stored result when
\* one of its status polls, made before the timeout elapsed, was answered
\* while the command was completed on the server; and it returns None only
\* when the command is not found or the timeout elapsed with no poll having
\* found the command completed.  (Stated for calls whose latest request was
\* answered; a request that fails in transport is C12's case.)
C11_WaitReturnsResult ==
    (tester.pc = "done" /\ ~tester.failed) =>
        /\ tester.saw => tester.ret = tester.sawResult
        /\ tester.ret = None =>
              \/ tester.notfound
              \/ (tester.elapsed >= Timeout /\ ~tester.saw)

\* C12: the wait loop tolerates a failed status request: it gives up only
\* when the timeout has expired, never right after a request that failed in
\* transport while time was left.
C12_WaitToleratesFailure ==
    (tester.pc = "done" /\ tester.failed) => tester.elapsed >= Timeout


\* ----------------------------------------------------- claims under SpecAgent
\* C13: once the agent has entered its polling loop, a failed poll or a
\* failed result submission never stops it: it is still running unless
\* stop() was called, it leaves the loop only after stop(), and from a
\* failed request until its next poll it is on the way round the loop
\* (processing what is left, sleeping, testing the loop condition, polling).
C13_FailureNeverStopsAgent ==
    client.looping =>
        /\ (~client.running \/ client.pc = "returned") => client.stopped
        /\ client.failed \in {"poll", "submit"} =>
              \/ client.pc \in {"L173", "L176", "L167", "L170"}
              \/ client.stopped

\* A submission failed and the agent, still running, is about to poll again.
C13_Witness ==
    /\ client.looping
    /\ client.failed = "submit"
    /\ client.pc = "L170"
    /\ client.running
    /\ ~client.stopped


\* ---------------------------------------------------- more claims under Spec
\* The issues given to client_id, in the order they were made.
IssuedTo(client_id) == SelectSeq(issued, LAMBDA i : i.client_id = client_id)

\* C14: the history of every agent holds every command ever issued to it,
\* each exactly once, in the order of issue, whatever the statuses; no poll
\* and no submission reorders or removes entries; and a history request is
\* answered with exactly that list.
C14_HistoryIsIssueOrder ==
    /\ \A a \in Agents :
          /\ Len(Queue(a)) = Len(IssuedTo(a))
          /\ \A k \in DOMAIN Queue(a) : Queue(a)[k].id = IssuedTo(a)[k].id
    /\ request.op = "get_client_history"
          => response.body.commands = Queue(request.client_id)

\* A history request answered with two commands of different statuses.
C14_Witness ==
    /\ request.op = "get_client_history"
    /\ Len(response.body.commands) = 2
    /\ response.body.commands[1].status # response.body.commands[2].status
    /\ \E k \in {1, 2} : response.body.commands[k].status = "completed"


\* C15: for an agent that was never issued a command, registered or not, a
\* poll and a history request are answered with an empty list and nothing
\* is raised; and a poll of a known agent that has no pending command is
\* answered with an empty list, without raising.
C15_EmptyWithoutRaising ==
    [][ \A a \in Agents :
           /\ (get_commands(a) /\ IssuedTo(a) = <<>>)
                 => response'.code = 200 /\ response'.body.commands = <<>>
           /\ (get_client_history(a) /\ IssuedTo(a) = <<>>)
                 => response'.code = 200 /\ response'.body.commands = <<>>
           /\ (get_commands(a) /\ a \in Known /\ PendingOf(Queue(a)) = <<>>)
                 => response'.code = 200 /\ response'.body.commands = <<>> ]_vars

\* A poll of an agent the store has never seen, while another agent owns a
\* command, was answered with the empty list.
C15_Witness ==
    /\ request.op = "get_commands"
    /\ request.client_id \in Agents \ Known
    /\ LedgerIds # {}
    /\ response.code = 200
    /\ response.body.commands = <<>>


\* C16: in every state, the owner and the text recorded for a command id,
\* in the ledger and in the owner's queue, are the ones given to the issue
\* that returned the id; and a status request is answered with that text.
C16_OwnerAndTextNeverChange ==
    /\ \A k \in DOMAIN issued :
          /\ issued[k].id \in LedgerIds
          /\ Ledger[issued[k].id].client_id = issued[k].client_id
          /\ Ledger[issued[k].id].command = issued[k].command
          /\ \A i \in DOMAIN Queue(issued[k].client_id) :
                Queue(issued[k].client_id)[i].id = issued[k].id
                   => Queue(issued[k].client_id)[i].command = issued[k].command
          /\ (request.op = "get_command_status" /\ request.cmd_id = issued[k].id)
                => /\ response.code = 200
                   /\ response.body.command.command = issued[k].command
                   /\ response.body.command.client_id = issued[k].client_id
    /\ LedgerIds = {issued[k].id : k \in DOMAIN issued}

\* A status request for a command that was polled and completed, and after
\* which another command was issued, shows the text as issued.
C16_Witness ==
    /\ request.op = "get_command_status"
    /\ response.code = 200
    /\ response.body.command.status = "completed"
    /\ Len(handed[request.cmd_id]) = 1
    /\ Len(issued) = 2
    /\ request.cmd_id = issued[1].id
    /\ response.body.command.command = issued[1].command
    /\ issued[2].command # issued[1].command


\* C17: register(A) is idempotent: for an unseen A it adds A with an empty
\* queue and touches nothing else; for a known A (registered, or known
\* through an issue) it changes nothing, its queue included; so registering
\* A again right after leaves the state of a single registration.
C17_RegisterIdempotent ==
    [][ \A a \in Agents :
           register_client(a) =>
              /\ a \notin Known =>
                    /\ command_store'.client_commands =
                          Put(command_store.client_commands, a, <<>>)
                    /\ command_store'.command_details = command_store.command_details
                    /\ command_store'.heap = command_store.heap
              /\ a \in Known => command_store' = command_store
              /\ CommandStore_register_client(command_store', a) = command_store'
              /\ response'.code = 200 ]_vars

\* A registration of an agent that already owned a command, known only
\* through the issue, left the command in its queue.
C17_Witness ==
    /\ request.op = "register_client"
    /\ response.code = 200
    /\ Len(Queue(request.client_id)) = 1
    /\ Len(issued) = 1


\* C18: drainPending(A) affects only A's pending commands: the set of known
\* agents and the ledger's ids are unchanged, every command of another
\* agent and every non-pending command of A keeps status, result, text and
\* owner in both copies, A's pending commands change in status only, and a
\* drainPending(B) for another agent B returns the same commands whether it
\* is made before or after.
C18_DrainTouchesOnlyOwnPending ==
    [][ \A a \in Agents :
           get_commands(a) =>
              /\ DOMAIN command_store'.client_commands = Known
              /\ DOMAIN command_store'.command_details = LedgerIds
              /\ \A id \in LedgerIds :
                    IF Ledger[id].client_id = a /\ Ledger[id].status = "pending"
                    THEN command_store'.command_details[id] =
                            [Ledger[id] EXCEPT !.status = "sent"]
                    ELSE command_store'.command_details[id] = Ledger[id]
              /\ \A b \in Agents \ {a} :
                    /\ CommandStore_get_client_commands(command_store', b) = Queue(b)
                    /\ CommandStore_get_pending_commands(command_store', b).ret =
                          CommandStore_get_pending_commands(command_store, b).ret
              /\ Len(CommandStore_get_client_commands(command_store', a)) = Len(Queue(a))
              /\ \A i \in DOMAIN Queue(a) :
                    IF Queue(a)[i].status = "pending"
                    THEN CommandStore_get_client_commands(command_store', a)[i] =
                            [Queue(a)[i] EXCEPT !.status = "sent"]
                    ELSE CommandStore_get_client_commands(command_store', a)[i] =
                            Queue(a)[i] ]_vars

\* A poll handed an agent its command while another agent's command stayed
\* pending.
C18_Witness ==
    /\ request.op = "get_commands"
    /\ response.code = 200
    /\ Len(response.body.commands) = 1
    /\ \E id \in LedgerIds :
          /\ Ledger[id].client_id # request.client_id
          /\ Ledger[id].status = "pending"


\* C19: no step removes an agent from the registry, a command from the
\* ledger, or a command id from an agent's queue: the known agents, the
\* ledger's ids and the ids of every queue only grow.
C19_NothingIsEverRemoved ==
    [][ /\ Known \subseteq DOMAIN command_store'.client_commands
        /\ LedgerIds \subseteq DOMAIN command_store'.command_details
        /\ \A a \in Known :
              IdsOf(Queue(a)) \subseteq
                 IdsOf(CommandStore_get_client_commands(command_store', a)) ]_vars

\* Both agents are known, two commands are in the ledger, one of them
\* completed, and a poll has just been answered.
C19_Witness ==
    /\ Known = Agents
    /\ Cardinality(LedgerIds) = 2
    /\ \E id \in LedgerIds : Ledger[id].status = "completed"
    /\ request.op = "get_commands"
    /\ response.code = 200
    /\ Len(response.body.commands) = 1


\* C20: in every state reached through the endpoints, a command has no
\* result exactly when its status is not completed, in the ledger and in
\* the owner's queue; and right after an accepted submission the command is
\* completed and carries the submitted, non-absent result.
C20_ResultIffCompleted ==
    /\ \A id \in LedgerIds :
          Ledger[id].result = None <=> Ledger[id].status # "completed"
    /\ \A ref \in HeapRefs :
          Heap[ref].result = None <=> Heap[ref].status # "completed"
    /\ (request.op = "submit_result" /\ response.code = 200)
          => /\ request.result # None
             /\ Ledger[request.cmd_id].status = "completed"
             /\ Ledger[request.cmd_id].result = request.result

\* A submission was accepted: its command is completed with the result,
\* while another command is still without one.
C20_Witness ==
    /\ request.op = "submit_result"
    /\ response.code = 200
    /\ before.status = "sent"
    /\ Ledger[request.cmd_id].result = request.result
    /\ \E id \in LedgerIds : Ledger[id].status = "pending" /\ Ledger[id].result = None


\* C21: the two copies of every command, the dict in the owner's queue and
\* the ledger entry, have the same status and the same result in every
\* state; so what a history request shows of a command and what a status
\* request shows of it never disagree.
C21_CopiesAgree ==
    /\ \A a \in Known : \A i \in DOMAIN Queue(a) :
          /\ Queue(a)[i].id \in LedgerIds
          /\ Queue(a)[i].status = Ledger[Queue(a)[i].id].status
          /\ Queue(a)[i].result = Ledger[Queue(a)[i].id].result
    /\ \A id \in LedgerIds :
          \E i \in DOMAIN Queue(Ledger[id].client_id) :
             Queue(Ledger[id].client_id)[i].id = id
    /\ request.op = "get_client_history" =>
          \A i \in DOMAIN response.body.commands :
             /\ response.body.commands[i].status =
                   CommandStore_get_command_details(command_store,
                                                    response.body.commands[i].id).status
             /\ response.body.commands[i].result =
                   CommandStore_get_command_details(command_store,
                                                    response.body.commands[i].id).result

\* A history request shows one command completed with its result and
\* another one sent, as the ledger does.
C21_Witness ==
    /\ request.op = "get_client_history"
    /\ Len(response.body.commands) = 2
    /\ response.body.commands[1].status = "completed"
    /\ response.body.commands[1].result = "r2"
    /\ Ledger[response.body.commands[1].id].result = "r2"
    /\ response.body.commands[2].status = "sent"
    /\ Ledger[response.body.commands[2].id].status = "sent"


\* C23: a result submitted for a command that is still pending makes it
\* completed although it was never handed out; and no poll ever returns a
\* command that is completed: its poll log stays as it was.
C23_CompletedNeverDelivered ==
    [][ /\ \A in \in CmdIds \X Results :
              ( /\ submit_result(in[1], in[2])
                /\ in[1] \in LedgerIds
                /\ Ledger[in[1]].status = "pending" )
                 => /\ response'.code = 200
                    /\ command_store'.command_details[in[1]].status = "completed"
                    /\ command_store'.command_details[in[1]].result = in[2]
                    /\ handed'[in[1]] = <<>>
        /\ \A a \in Agents :
              get_commands(a) =>
                 /\ response'.code = 200
                 /\ \A id \in LedgerIds :
                       Ledger[id].status = "completed"
                          => /\ id \notin IdsOf(response'.body.commands)
                             /\ handed'[id] = handed[id]
                             /\ command_store'.command_details[id] = Ledger[id] ]_vars

\* A command was completed without ever having been handed out, and a later
\* poll of its owner returned the owner's other command only.
C23_Witness ==
    /\ request.op = "get_commands"
    /\ response.code = 200
    /\ Len(response.body.commands) = 1
    /\ \E id \in LedgerIds :
          /\ Ledger[id].client_id = request.client_id
          /\ Ledger[id].status = "completed"
          /\ handed[id] = <<>>
          /\ id # response.body.commands[1].id


\* -------------------------------------------------- claims under SpecAgentFair
\* The ids of a sequence of command records, in order.
IdSeq(recs) == [i \in DOMAIN recs |-> recs[i].id]

\* The ids of the agent's commands that were handed out, in queue order.
HandedOut(client_id) ==
    IdSeq(SelectSeq(Queue(client_id), LAMBDA rec : rec.status # "pending"))

\* C22: once agent A has registered and runs its loop with every request
\* answered, every command issued to A is eventually handed to it and shown
\* as sent, and every command handed to it is eventually completed with the
\* result the agent computed for it; the agent submits for the commands in
\* the order it received them, one result for each.
C22_IssuedEventuallyCompleted ==
    /\ [](client.looping =>
             client.submitted \o IdSeq(client.commands) = HandedOut(client.client_id))
    /\ \A id \in CmdIds :
          /\ ( /\ client.looping
               /\ id \in LedgerIds
               /\ Ledger[id].client_id = client.client_id )
                ~> ( /\ id \in LedgerIds
                     /\ Ledger[id].status # "pending"
                     /\ handed[id] = <<client.client_id>> )
          /\ ( /\ id \in LedgerIds
               /\ Ledger[id].status = "sent" )
                ~> ( /\ id \in LedgerIds
                     /\ Ledger[id].status = "completed"
                     /\ Ledger[id].result = execute_command(Ledger[id].command)
                     /\ Occurrences([i \in DOMAIN client.submitted |->
                                        [id |-> client.submitted[i]]], id) = 1 )

\* One poll handed the agent two commands with different texts; it has
\* submitted for both, in order, and both are completed with their results.
C22_Witness ==
    /\ client.looping
    /\ client.submitted = <<1, 2>>
    /\ handed[1] = <<client.client_id>>
    /\ handed[2] = <<client.client_id>>
    /\ Ledger[1].command # Ledger[2].command
    /\ \A id \in {1, 2} :
          /\ Ledger[id].status = "completed"
          /\ Ledger[id].result = execute_command(Ledger[id].command)


TypeOK ==
    /\ uuids \in 0 .. MaxCmds
    /\ DOMAIN command_store.client_commands \subseteq Agents
    /\ DOMAIN command_store.command_details \subseteq CmdIds
    /\ Len(command_store.heap) <= MaxCmds
====
